---------------------------- MODULE Spec2Model ----------------------------
(***************************************************************************)
(* nanobot: session dispatch, the turn executor (main graph and subagent   *)
(* ReAct loop), the command parser and the session checkpointer.           *)
(*                                                                         *)
(* Specifications:                                                         *)
(*   SpecGateway  the LangGraph gateway: main.py/_run_gateway driving      *)
(*                StateMessageBusAdapter.process_message over the bus      *)
(*   SpecLoop     the AgentLoop session dispatcher exercised by            *)
(*                tests/test_task_cancel.py (nanobot/agent/loop.py)        *)
(*   SpecTurn     one turn of the turn executor: the main graph            *)
(*                (agent/tools/spawn_subagent/update_state nodes) or       *)
(*                SubagentManager.run_subagent                             *)
(*   SpecPool     successive turns of the main graph together with the     *)
(*                subagents they spawn, which complete at any time         *)
(*   SpecMessenger  short runs of run_subagent with deliver_adjustment     *)
(*                called at any time (subagent/messenger.py)               *)
(*   SpecRunLive  run_subagent up to the iteration ceiling, with weak      *)
(*                fairness on its steps                                    *)
(*   SpecCommands parse_command and is_immediate_command on bounded texts  *)
(*   SpecCleanup  the update_state node on task lists of every status      *)
(*   SpecCheckpointer  SessionCheckpointer.delete_session on filled tables *)
(***************************************************************************)
EXTENDS Integers, Sequences, FiniteSets, TLC

VARIABLES
    inbox,          \* bus: inbound queue (messages not yet consumed)
    outbox,         \* bus: outbound messages published so far
    sent,           \* number of inbound messages submitted so far
    order,          \* start/end events of turns, as the test's `order` list
    gwPc,           \* _run_gateway: position of the gateway coroutine
    running,        \* gateway: ids of messages inside process_message
    raised,         \* gateway: messages whose graph run raised
    loopPc,         \* AgentLoop.run: position of the run loop
    dispatches,     \* AgentLoop: one record per _dispatch task
    active_tasks,   \* AgentLoop._active_tasks: session key -> task
    locks,          \* AgentLoop: per-session serialization lock
    stops,          \* AgentLoop: one record per handled /stop
    mode,           \* turn executor: which executor runs ("main"/"sub"/"none")
    script,         \* turn executor: what provider and tools will answer
    node,           \* main graph: node to run next
    state,          \* main graph: AgentState
    steps,          \* main graph: supersteps taken
    spawned,        \* main graph: subagent tasks started by spawn_subagent_node
    sub,            \* subagent: SubagentState and loop position
    pending,        \* SubagentMessenger._pending_adjustments: task_id -> queue
    toolLog,        \* turn executor: tool executions so far (call id, outcome)
    turn,           \* gateway: number of the process_message call under way
    past,           \* state dicts of the finished turns (still held by subagents)
    runs,           \* run_subagent coroutines started by spawn_subagent_node
    lastCall,       \* main loop: what the latest provider call was given
    cmdIn,          \* commands: the text handed to parse_command
    cmdOut,         \* commands: what parse_command / is_immediate_command gave
    deliveries,     \* messenger: one record per deliver_adjustment call
    db              \* checkpointer: rows per thread_id in the two tables, last call

busVars  == <<inbox, outbox, sent, order>>
gwVars   == <<gwPc, running, raised>>
loopVars == <<loopPc, dispatches, active_tasks, locks, stops>>
turnVars == <<mode, script, node, state, steps, spawned, sub, pending, toolLog>>
poolVars == <<turn, past, runs, lastCall>>
cmdVars  == <<cmdIn, cmdOut>>
vars     == <<inbox, outbox, sent, order, gwPc, running, raised,
              loopPc, dispatches, active_tasks, locks, stops,
              mode, script, node, state, steps, spawned, sub, pending, toolLog,
              turn, past, runs, lastCall, cmdIn, cmdOut, deliveries, db>>

None == "None"

(***************************************************************************)
(* Bounds of the model.                                                    *)
(***************************************************************************)
MaxMsgs == 3
MaxCalls == 2
RecursionLimit == 7

(***************************************************************************)
(* Text: a string is a tuple of one-character strings.                     *)
(***************************************************************************)
Whitespace == {" ", "\t", "\n"}

Uppers == <<"A","B","C","D","E","F","G","H","I","J","K","L","M",
            "N","O","P","Q","R","S","T","U","V","W","X","Y","Z">>

Lowers == <<"a","b","c","d","e","f","g","h","i","j","k","l","m",
            "n","o","p","q","r","s","t","u","v","w","x","y","z">>

\* str.lower() on one character
LowerChar(c) ==
    IF \E i \in DOMAIN Uppers : Uppers[i] = c
    THEN Lowers[CHOOSE i \in DOMAIN Uppers : Uppers[i] = c]
    ELSE c

\* str.lower()
Lower(s) == [i \in DOMAIN s |-> LowerChar(s[i])]

RECURSIVE LStrip(_)
LStrip(s) ==
    IF s # <<>> /\ Head(s) \in Whitespace THEN LStrip(Tail(s)) ELSE s

RECURSIVE RStrip(_)
RStrip(s) ==
    IF s # <<>> /\ s[Len(s)] \in Whitespace
    THEN RStrip(SubSeq(s, 1, Len(s) - 1)) ELSE s

\* str.strip()
Strip(s) == RStrip(LStrip(s))

RECURSIVE TakeToken(_)
TakeToken(s) ==
    IF s = <<>> \/ Head(s) \in Whitespace THEN <<>>
    ELSE <<Head(s)>> \o TakeToken(Tail(s))

\* str.split()[0] of a string that holds a non-whitespace character
FirstToken(s) == TakeToken(LStrip(s))

(***************************************************************************)
(* nanobot/agent/commands.py                                               *)
(***************************************************************************)
CmdStop == <<"/","s","t","o","p">>
CmdNew  == <<"/","n","e","w">>
CmdHelp == <<"/","h","e","l","p">>

\* COMMANDS: command -> immediate flag
COMMANDS == [c \in {CmdStop, CmdNew, CmdHelp} |-> (c = CmdStop)]

\* parse_command's None: no command (a command is never the empty string)
NoCommand == <<>>

\* stripped.split()[0], without .lower()
parse_keeps_case(text) ==
    LET stripped == Strip(text) IN
    IF stripped = <<>> \/ Head(stripped) # "/" THEN NoCommand
    ELSE FirstToken(stripped)

parse_command(text) ==
    LET stripped == Strip(text) IN
    IF stripped = <<>> \/ Head(stripped) # "/" THEN NoCommand
    ELSE Lower(FirstToken(stripped))

\* COMMANDS.get(cmd) is not None
immediate_when_registered(cmd) == cmd \in DOMAIN COMMANDS

is_immediate_command(cmd) ==
    IF cmd \in DOMAIN COMMANDS THEN COMMANDS[cmd] ELSE FALSE

(***************************************************************************)
(* The command parser on its own: a text is parsed, then the text or the   *)
(* command parsed from it is looked up.                                    *)
(***************************************************************************)
MaxLen == 4

\* the texts handed to parse_command: every text of up to MaxLen characters,
\* and the commands as users type them, with near misses
CommandInputs ==
    LET Alphabet  == {" ", "/", "n", "N"}
        Spellings ==
            { CmdStop, <<"/","S","T","O","P">>, <<"/","S","t","o","p">>,
              CmdNew, <<"/","N","e","w">>, CmdHelp,
              <<"/","s","t","o","p"," ","n","o","w">>, <<"/","s","t","o","p","s">>,
              <<"s","t","o","p">>, <<"/","u","n","k","n","o","w","n">> }
        Paddings  == { <<>>, <<" ">>, <<"\n", "\t">> }
    IN UNION { [1..n -> Alphabet] : n \in 0..MaxLen }
         \cup { l \o c \o r : l \in Paddings, c \in Spellings, r \in Paddings }

NoResult == [pc |-> "idle", parsed |-> NoCommand, cmd |-> NoCommand, immediate |-> FALSE]

InitCommands ==
    /\ cmdIn \in CommandInputs
    /\ cmdOut = [NoResult EXCEPT !.pc = "input"]

ParseCommand ==
    /\ cmdOut.pc = "input"
    /\ cmdOut' = [cmdOut EXCEPT !.pc = "parsed", !.parsed = parse_command(cmdIn)]
    /\ UNCHANGED cmdIn

\* is_immediate_command on the text as given or on the command parsed from it
IsImmediate ==
    /\ cmdOut.pc = "parsed"
    /\ \E cmd \in {cmdIn, cmdOut.parsed} :
          cmdOut' = [cmdOut EXCEPT !.pc = "classified", !.cmd = cmd,
                                   !.immediate = is_immediate_command(cmd)]
    /\ UNCHANGED cmdIn

(***************************************************************************)
(* Inbound messages. The session key is channel:chat_id.                   *)
(***************************************************************************)
Channels == {"telegram"}
Chats    == {"c1", "c2"}
Texts    == { <<"h","i">>, <<"/","s","t","o","p">>, <<" ","/","S","T","O","P">> }

InboundMessage(i, ch, c, t) == [id |-> i, channel |-> ch, chat_id |-> c, content |-> t]

session_key(m) == <<m.channel, m.chat_id>>

SessionKeys == Channels \X Chats

OutboundMessage(ch, c, k, i) == [channel |-> ch, chat_id |-> c, kind |-> k, of |-> i]

\* bus.publish_inbound: append to the inbound queue
publish_inbound(q, m) == Append(q, m)

\* index of the message consume_inbound hands out: the oldest
consume_lifo(q) == Len(q)
consume_pick(q) == 1

\* bus.consume_inbound: the queue without the message handed out
consume_rest(q) ==
    LET k == consume_pick(q) IN
    SubSeq(q, 1, k - 1) \o SubSeq(q, k + 1, Len(q))

\* A channel adapter submits a message: the ids count submissions.
Submit ==
    /\ sent < MaxMsgs
    /\ \E ch \in Channels, c \in Chats, t \in Texts :
          inbox' = publish_inbound(inbox, InboundMessage(sent + 1, ch, c, t))
    /\ sent' = sent + 1
    /\ UNCHANGED <<outbox, order>>

BusInit ==
    /\ inbox = <<>>
    /\ outbox = <<>>
    /\ sent = 0
    /\ order = <<>>

(***************************************************************************)
(* LangGraph gateway: main.py/_run_gateway and                             *)
(* StateMessageBusAdapter.process_message.                                 *)
(***************************************************************************)
GwInit ==
    /\ gwPc = "consume"
    /\ running = {}
    /\ raised = {}

\* `await bus_adapter.process_message(msg)`: the gateway waits for the turn
dispatch_detached(m) == "consume"
dispatch_awaited(m) == "await"

\* process_message's `except Exception` around graph_app.ainvoke
except_missing(m) == FALSE
process_message_catches(m) == TRUE

\* while True: msg = await consume_from_bus(); if msg: await process_message(msg)
\* process_message runs up to its first suspension, `await graph_app.ainvoke`.
GatewayConsume ==
    /\ gwPc = "consume"
    /\ inbox # <<>>
    /\ LET m == inbox[consume_pick(inbox)] IN
         /\ inbox' = consume_rest(inbox)
         /\ running' = running \cup {m}
         /\ order' = Append(order, [ev |-> "start", id |-> m.id, key |-> session_key(m)])
         /\ gwPc' = dispatch_awaited(m)
    /\ UNCHANGED <<outbox, sent, raised>>

\* ainvoke returned: the last message of the result is published, if there is one
ProcessReturn ==
    \E m \in running, hasMessages \in BOOLEAN :
        /\ outbox' = IF hasMessages
                     THEN Append(outbox, OutboundMessage(m.channel, m.chat_id, "reply", m.id))
                     ELSE outbox
        /\ running' = running \ {m}
        /\ order' = Append(order, [ev |-> "end", id |-> m.id, key |-> session_key(m)])
        /\ gwPc' = IF gwPc = "await" THEN "consume" ELSE gwPc
        /\ UNCHANGED <<inbox, sent, raised>>

\* ainvoke raised an Exception: process_message publishes "Error: ..." and
\* returns; an exception leaving process_message ends _run_gateway's loop.
ProcessRaise ==
    \E m \in running :
        /\ raised' = raised \cup {m}
        /\ running' = running \ {m}
        /\ order' = Append(order, [ev |-> "end", id |-> m.id, key |-> session_key(m)])
        /\ IF process_message_catches(m)
           THEN /\ outbox' = Append(outbox, OutboundMessage(m.channel, m.chat_id, "error", m.id))
                /\ gwPc' = IF gwPc = "await" THEN "consume" ELSE gwPc
           ELSE /\ outbox' = outbox
                /\ gwPc' = "stopped_error"
        /\ UNCHANGED <<inbox, sent>>

\* KeyboardInterrupt: "Gateway mode stopped by user"; the turn in flight unwinds
GatewayInterrupt ==
    /\ gwPc \in {"consume", "await"}
    /\ gwPc' = "stopped_user"
    /\ running' = {}
    /\ UNCHANGED <<inbox, outbox, sent, order, raised>>

(***************************************************************************)
(* Properties of the gateway.                                              *)
(***************************************************************************)
EventsOf(k) == SelectSeq(order, LAMBDA e : e.key = k)

RepliesTo(i) == {j \in DOMAIN outbox : outbox[j].of = i}

\* C1: for every session key at most one turn is running at any instant;
\* the processing of two messages of one key never overlaps.
C1_OneTurnPerKey ==
    \A k \in SessionKeys : Cardinality({m \in running : session_key(m) = k}) <= 1

\* a turn of a key is running while another message of that key waits
C1_Witness ==
    \E m \in running : \E i \in DOMAIN inbox : session_key(inbox[i]) = session_key(m)

\* C2: the turns of one session key start and end in submission order:
\* start-a, end-a, start-b, end-b, with a submitted before b.
C2_FifoPerKey ==
    \A k \in SessionKeys :
        LET es == EventsOf(k) IN
        \A i \in DOMAIN es :
            /\ (i % 2 = 1) => es[i].ev = "start"
            /\ (i % 2 = 0) => (es[i].ev = "end" /\ es[i].id = es[i - 1].id)
            /\ (i > 2 /\ i % 2 = 1) => es[i].id > es[i - 2].id

\* two messages of one key waited together and both turns have run
C2_Witness ==
    \E k \in SessionKeys : Len(EventsOf(k)) >= 4

\* C6: an immediate command that is next in the queue while a turn of its
\* session is in flight can be taken up at once; it does not wait for the
\* turn to finish.
C6_ImmediateNotQueued ==
    \A m \in running :
        (/\ inbox # <<>>
         /\ is_immediate_command(parse_command(inbox[consume_pick(inbox)].content))
         /\ session_key(inbox[consume_pick(inbox)]) = session_key(m))
        => ENABLED GatewayConsume

NoTask == 0

Unlocked == [holder |-> NoTask, waiters |-> <<>>]

LoopConsuming == [pc |-> "consume", stop |-> 0, task |-> NoTask]

LoopInit ==
    /\ loopPc = LoopConsuming
    /\ dispatches = <<>>
    /\ active_tasks = <<>>
    /\ locks = [k \in SessionKeys |-> Unlocked]
    /\ stops = <<>>

Dispatch(m, p) ==
    [msg |-> m, pc |-> p, cancel_requested |-> FALSE, cancelled_by |-> 0, outcome |-> "none"]

\* /stop: the task handle registered under the requesting session key
lookup_any(tasks, key) ==
    IF key \in DOMAIN tasks THEN tasks[key]
    ELSE IF DOMAIN tasks # {} THEN tasks[CHOOSE k \in DOMAIN tasks : TRUE]
    ELSE NoTask
lookup_task(tasks, key) ==
    IF key \in DOMAIN tasks THEN tasks[key] ELSE NoTask

\* removal of the session's entry on every exit path of a dispatch
cleanup_skips_cancel(tasks, key, outcome) ==
    IF outcome = "cancelled" THEN tasks
    ELSE [k \in DOMAIN tasks \ {key} |-> tasks[k]]
dispatch_cleanup(tasks, key, outcome) ==
    [k \in DOMAIN tasks \ {key} |-> tasks[k]]

\* what the dispatch boundary itself publishes when it catches a cancellation:
\* nothing, the confirmation is the /stop handler's
boundary_confirms(m) == <<OutboundMessage(m.channel, m.chat_id, "stopped", m.id)>>
on_cancelled_publish(m) == <<>>

\* whether the dispatch boundary rethrows the cancellation it caught
rethrow_always(m) == TRUE
rethrow_cancelled(m) == FALSE

\* the lock is taken and the task registered under its session key
Enter(t, m, w) ==
    /\ locks' = [locks EXCEPT ![session_key(m)] = [holder |-> t, waiters |-> w]]
    /\ active_tasks' = (session_key(m) :> t) @@ active_tasks
    /\ order' = Append(order, [ev |-> "start", id |-> m.id, key |-> session_key(m)])

\* run(): the next inbound message; an immediate command is handled in the
\* run loop itself, any other message becomes a _dispatch task, which runs
\* up to the session lock (taking it if it is free).
LoopConsume ==
    /\ loopPc.pc = "consume"
    /\ inbox # <<>>
    /\ LET m   == inbox[consume_pick(inbox)]
           key == session_key(m)
           t   == lookup_task(active_tasks, key)
       IN
       /\ inbox' = consume_rest(inbox)
       /\ IF is_immediate_command(parse_command(m.content))
          THEN /\ stops' = (m.id :> [key |-> key, had_entry |-> key \in DOMAIN active_tasks,
                                     task |-> t,
                                     phase |-> IF t = NoTask THEN "done" ELSE "cancelling"])
                             @@ stops
               /\ IF t = NoTask
                  THEN /\ outbox' = Append(outbox,
                                       OutboundMessage(m.channel, m.chat_id, "no_active_task", m.id))
                       /\ UNCHANGED <<dispatches, loopPc>>
                  ELSE /\ dispatches' = [dispatches EXCEPT ![t].cancel_requested = TRUE,
                                                           ![t].cancelled_by = m.id]
                       /\ loopPc' = [pc |-> "stop_wait", stop |-> m.id, task |-> t]
                       /\ UNCHANGED outbox
               /\ UNCHANGED <<active_tasks, locks, order>>
          ELSE /\ IF locks[key] = Unlocked
                  THEN /\ Enter(m.id, m, <<>>)
                       /\ dispatches' = (m.id :> Dispatch(m, "turn")) @@ dispatches
                  ELSE /\ locks' = [locks EXCEPT ![key].waiters = Append(@, m.id)]
                       /\ dispatches' = (m.id :> Dispatch(m, "lock_wait")) @@ dispatches
                       /\ UNCHANGED <<active_tasks, order>>
               /\ UNCHANGED <<outbox, loopPc, stops>>
    /\ UNCHANGED sent

\* the oldest waiter of a released lock takes it
DispatchResume ==
    \E t \in DOMAIN dispatches :
        LET m == dispatches[t].msg  key == session_key(m) IN
        /\ dispatches[t].pc = "lock_wait"
        /\ locks[key].holder = NoTask
        /\ locks[key].waiters # <<>>
        /\ Head(locks[key].waiters) = t
        /\ Enter(t, m, Tail(locks[key].waiters))
        /\ dispatches' = [dispatches EXCEPT ![t].pc = "turn"]
        /\ UNCHANGED <<inbox, outbox, sent, loopPc, stops>>

\* the end of a dispatch: the entry is removed and the lock released
Leave(t, m, outcome) ==
    /\ active_tasks' = dispatch_cleanup(active_tasks, session_key(m), outcome)
    /\ locks' = [locks EXCEPT ![session_key(m)].holder = NoTask]
    /\ order' = Append(order, [ev |-> "end", id |-> m.id, key |-> session_key(m)])

\* the turn returns its response, or raises and is answered by an error message
TurnEnd ==
    \E t \in DOMAIN dispatches, outcome \in {"ok", "error"} :
        LET m == dispatches[t].msg IN
        /\ dispatches[t].pc = "turn"
        /\ ~dispatches[t].cancel_requested
        /\ outbox' = Append(outbox,
                        OutboundMessage(m.channel, m.chat_id,
                                        IF outcome = "ok" THEN "reply" ELSE "error", m.id))
        /\ dispatches' = [dispatches EXCEPT ![t].pc = "done", ![t].outcome = outcome]
        /\ Leave(t, m, outcome)
        /\ UNCHANGED <<inbox, sent, loopPc, stops>>

\* the cancellation reaches the turn at its await and is caught by _dispatch
TurnCancelled ==
    \E t \in DOMAIN dispatches :
        LET m == dispatches[t].msg IN
        /\ dispatches[t].pc = "turn"
        /\ dispatches[t].cancel_requested
        /\ outbox' = outbox \o on_cancelled_publish(m)
        /\ dispatches' = [dispatches EXCEPT
                             ![t].pc = "done",
                             ![t].outcome = IF rethrow_cancelled(m)
                                            THEN "cancel_propagated" ELSE "cancelled"]
        /\ Leave(t, m, "cancelled")
        /\ UNCHANGED <<inbox, sent, loopPc, stops>>

\* /stop: the cancelled task has ended; the confirmation is published
StopConfirm ==
    /\ loopPc.pc = "stop_wait"
    /\ dispatches[loopPc.task].pc = "done"
    /\ LET s == loopPc.stop  m == dispatches[loopPc.task].msg IN
         /\ outbox' = Append(outbox, OutboundMessage(m.channel, m.chat_id, "stopped", s))
         /\ stops' = [stops EXCEPT ![s].phase = "done"]
    /\ loopPc' = LoopConsuming
    /\ UNCHANGED <<inbox, sent, order, dispatches, active_tasks, locks>>

(***************************************************************************)
(* Properties of the AgentLoop dispatcher.                                 *)
(***************************************************************************)
\* C3: a dispatch is registered under its session key while its turn runs,
\* and once the turn has ended (return, exception or cancellation) the key
\* holds no entry of it: every entry of the table is a running turn.
C3_GuaranteedCleanup ==
    /\ \A t \in DOMAIN dispatches :
          dispatches[t].pc = "turn" =>
              /\ session_key(dispatches[t].msg) \in DOMAIN active_tasks
              /\ active_tasks[session_key(dispatches[t].msg)] = t
    /\ \A k \in DOMAIN active_tasks : dispatches[active_tasks[k]].pc = "turn"

\* a cancelled and a normally ended dispatch, with nothing left in the table
C3_Witness ==
    /\ \E t \in DOMAIN dispatches :
          dispatches[t].pc = "done" /\ dispatches[t].cancel_requested
    /\ \E t \in DOMAIN dispatches :
          dispatches[t].pc = "done" /\ dispatches[t].outcome \in {"ok", "error"}
    /\ active_tasks = <<>>

\* C4: /stop for a key with a live task cancels that task, which observes
\* the cancellation at its await, and publishes exactly one outbound
\* message, a stop confirmation.
C4_StopCancels ==
    \A s \in DOMAIN stops :
        stops[s].had_entry =>
            LET t == stops[s].task IN
            /\ t # NoTask
            /\ session_key(dispatches[t].msg) = stops[s].key
            /\ dispatches[t].cancel_requested
            /\ dispatches[t].pc = "done" => dispatches[t].outcome \notin {"ok", "error"}
            /\ stops[s].phase = "cancelling" => RepliesTo(s) = {}
            /\ stops[s].phase = "done" =>
                  /\ dispatches[t].pc = "done"
                  /\ Cardinality({j \in DOMAIN outbox :
                         outbox[j].kind = "stopped" /\ outbox[j].of \in {s, t}}) = 1
                  /\ \A j \in RepliesTo(s) :
                        outbox[j] = OutboundMessage(dispatches[t].msg.channel,
                                                    dispatches[t].msg.chat_id, "stopped", s)

\* a /stop that found a live task has been confirmed
C4_Witness ==
    \E s \in DOMAIN stops : stops[s].had_entry /\ stops[s].phase = "done"

\* C5: /stop for a key without an entry publishes exactly one outbound
\* message, "No active task", and cancels no task.
C5_StopNoTask ==
    \A s \in DOMAIN stops :
        ~stops[s].had_entry =>
            /\ stops[s].phase = "done"
            /\ Cardinality(RepliesTo(s)) = 1
            /\ \A j \in RepliesTo(s) :
                  outbox[j].kind = "no_active_task" /\ <<outbox[j].channel, outbox[j].chat_id>> = stops[s].key
            /\ \A t \in DOMAIN dispatches : dispatches[t].cancelled_by # s

\* /stop for a key without entry while a turn of another key is running
C5_Witness ==
    \E s \in DOMAIN stops :
        /\ ~stops[s].had_entry
        /\ \E t \in DOMAIN dispatches : dispatches[t].pc = "turn"

\* C8: a cancellation requested against a registered turn is caught at the
\* dispatch boundary and not rethrown: the cancelled dispatch ends without
\* propagating the cancellation.
C8_CancelNotRethrown ==
    \A t \in DOMAIN dispatches :
        /\ dispatches[t].outcome # "cancel_propagated"
        /\ (dispatches[t].cancel_requested /\ dispatches[t].pc = "done")
              => dispatches[t].outcome = "cancelled"

\* a cancelled dispatch has ended
C8_Witness ==
    \E t \in DOMAIN dispatches :
        dispatches[t].cancel_requested /\ dispatches[t].pc = "done"

GwIdle ==
    /\ gwPc = None
    /\ running = {}
    /\ raised = {}

(***************************************************************************)
(* Turn executor: messages, tool calls, provider responses.                *)
(***************************************************************************)
ToolNames == {"read_file", "spawn"}
Tasks     == {"research"}
TaskIds   == {"a1b2c3d4", "e5f6a7b8"}

NoArgs == [task |-> "", label |-> ""]

ToolCallRequest(i, n, a) == [id |-> i, name |-> n, args |-> a]

\* content of a message: what it is, for which tool, about what
Content(k, t, d) == [kind |-> k, tool |-> t, detail |-> d]

Message(r, c, tcs, tcid, n) ==
    [role |-> r, content |-> c, tool_calls |-> tcs, tool_call_id |-> tcid, name |-> n]

UserMessage(c)      == Message("user", c, <<>>, 0, "")
SystemMessage(c)    == Message("system", c, <<>>, 0, "")
AssistantMessage(c, tcs) == Message("assistant", c, tcs, 0, "")
ToolMessage(c, call)     == Message("tool", c, <<>>, call.id, call.name)

\* the tool calls a response may carry: 1..MaxCalls calls, the j-th call of
\* the n-th provider call having id 10n+j (ids are unique, as a provider's)
CallLists(n) ==
    UNION { { [j \in 1..len |->
                 ToolCallRequest(10 * n + j, names[j],
                     IF names[j] = "spawn"
                     THEN [task |-> CHOOSE t \in Tasks : TRUE, label |-> ""]
                     ELSE NoArgs)] :
              names \in [1..len -> ToolNames] } : len \in 1..MaxCalls }

\* LLMResponse: content, or tool calls; "raise" is a failed provider call
Responses(n) ==
    {[kind |-> "raise", tool_calls |-> <<>>], [kind |-> "text", tool_calls |-> <<>>]}
        \cup {[kind |-> "calls", tool_calls |-> cs] : cs \in CallLists(n)}

\* What the graph runtime hands to the nodes and routers: messages as dicts
\* (as call_model appends them) or as objects with attributes, and the
\* entries of tool_calls as dicts or as objects.
Shapes == {[msg |-> "dict", call |-> "dict"],
           [msg |-> "obj",  call |-> "dict"],
           [msg |-> "obj",  call |-> "obj"]}

(***************************************************************************)
(* Main graph: graph/main_graph.py and the nodes.                          *)
(***************************************************************************)
At(n) == [name |-> n, i |-> 0, calls |-> <<>>, cause |-> ""]

Last(q) == q[Len(q)]

\* should_continue: hasattr(last_message, "tool_calls") and last_message.tool_calls
should_continue(st, shape) ==
    IF shape.msg = "obj" /\ Last(st.messages).tool_calls # <<>>
    THEN "continue" ELSE "end"

\* should_spawn_subagent: `tool_call.name` of a dict raises AttributeError
should_spawn_subagent(st, shape) ==
    LET tcs == Last(st.messages).tool_calls IN
    IF shape.msg = "obj" /\ tcs # <<>> /\ shape.call = "dict" THEN "raise"
    ELSE IF shape.msg = "obj" /\ \E j \in DOMAIN tcs : tcs[j].name = "spawn" THEN "spawn"
    ELSE should_continue(st, shape)

\* add_conditional_edges("agent", should_spawn_subagent, {...})
AfterAgent(st, shape) ==
    LET r == should_spawn_subagent(st, shape) IN
    CASE r = "spawn"    -> At("spawn_subagent")
      [] r = "continue" -> [At("tools") EXCEPT !.i = 1, !.calls = Last(st.messages).tool_calls]
      [] r = "end"      -> At("update_state")
      [] r = "raise"    -> [At("raised") EXCEPT !.cause = "router"]

\* add_edge("update_state", "agent") and the conditional edges of
\* update_state: every edge of a node fires, END schedules nothing
AfterUpdate(st, shape) ==
    LET targets == {"agent"} \cup
                   {IF should_continue(st, shape) = "continue" THEN "agent" ELSE "END"}
    IN IF "agent" \in targets THEN At("agent") ELSE At("END")

\* process_message: the initial state handed to graph_app.ainvoke
InitialState ==
    [messages |-> <<UserMessage(Content("text", "", "hi"))>>,
     current_tools |-> <<>>,
     subagent_tasks |-> <<>>]

\* a call_model that hands back the response alone as the log
call_model_rewrites(st, resp) ==
    [st EXCEPT !.messages = <<AssistantMessage(Content("text", "", "answer"), <<>>)>>,
               !.current_tools = <<>>]

\* call_model
call_model(st, resp) ==
    IF st.messages = <<>> THEN st
    ELSE CASE resp.kind = "raise" ->
                [st EXCEPT !.messages = Append(@, AssistantMessage(Content("error", "", "provider"), <<>>)),
                           !.current_tools = <<>>]
           [] resp.kind = "calls" ->
                [st EXCEPT !.messages = Append(@, AssistantMessage(Content("text", "", ""), resp.tool_calls)),
                           !.current_tools = [j \in DOMAIN resp.tool_calls |-> resp.tool_calls[j].name]]
           [] resp.kind = "text" ->
                [st EXCEPT !.messages = Append(@, AssistantMessage(Content("text", "", "answer"), <<>>)),
                           !.current_tools = <<>>]

\* number of provider calls made so far in the main turn: one assistant
\* message per call, and one more per spawn feedback
ProviderCalls(st) ==
    Cardinality({j \in DOMAIN st.messages :
        st.messages[j].role = "assistant" /\ st.messages[j].content.kind # "feedback"})

\* how many subagents the provider asks for at most (script.spawns)
MaxRuns == 2

\* what the provider may answer to the n-th call of a turn: any response,
\* or (script.provider = "spawner") one spawn call per call until
\* script.spawns subagents were asked for, and a text from then on
ProviderAnswers(sc, n) ==
    IF sc.provider = "spawner"
    THEN {r \in Responses(n) :
            IF Len(spawned) < sc.spawns
            THEN /\ Len(r.tool_calls) = 1
                 /\ r.tool_calls[1].name = "spawn"
            ELSE r.kind = "text"}
    ELSE Responses(n)

\* no provider call made yet; `fresh`: the subagent runs whose completion
\* message was appended since the latest provider call
NoCall == [turn |-> 0, messages |-> <<>>, owed |-> {}, fresh |-> {}]

\* call_model reads state["messages"] (lines 17-36) and awaits the provider
AgentNode ==
    /\ mode = "main"
    /\ node.name = "agent"
    /\ steps < RecursionLimit
    /\ \E resp \in ProviderAnswers(script, ProviderCalls(state) + 1) :
          /\ state' = call_model(state, resp)
          /\ node' = AfterAgent(state', script.shape)
    /\ steps' = steps + 1
    /\ lastCall' = [turn |-> turn, messages |-> state.messages,
                    owed |-> lastCall.fresh, fresh |-> {}]
    /\ UNCHANGED <<script, mode, spawned, sub, pending, toolLog, turn, past, runs>>

\* execute_tools' `except Exception` around one tool execution
tool_exception_escapes(call) == FALSE
execute_tools_catches(call) == TRUE

\* execute_tools, one pass of its loop: the tool returns or raises
ToolsNode ==
    /\ mode = "main"
    /\ node.name = "tools"
    /\ steps < RecursionLimit
    /\ IF node.i = 1 /\ Last(state.messages).tool_calls = <<>>
       THEN \* `if not tool_calls: return state`: the last message is no
            \* longer the assistant's
            /\ node' = At("update_state")
            /\ steps' = steps + 1
            /\ UNCHANGED <<state, toolLog>>
       ELSE \E ok \in BOOLEAN :
          LET call == node.calls[node.i]
              last == node.i = Len(node.calls)
          IN
          /\ toolLog' = Append(toolLog, [id |-> call.id, ok |-> ok])
          /\ IF ok \/ execute_tools_catches(call)
             THEN /\ state' = [state EXCEPT !.messages = Append(@,
                                  ToolMessage(IF ok THEN Content("result", call.name, "")
                                              ELSE Content("error_executing", call.name, "exc"),
                                              call))]
                  /\ node' = IF last THEN At("update_state") ELSE [node EXCEPT !.i = @ + 1]
                  /\ steps' = IF last THEN steps + 1 ELSE steps
             ELSE /\ state' = state
                  /\ node' = [At("raised") EXCEPT !.cause = "tool"]
                  /\ steps' = steps
    /\ UNCHANGED <<script, mode, spawned, sub, pending>>
    /\ UNCHANGED poolVars

\* the SubagentTask entry of spawn_subagent_node; started_at is the instant
\* of the spawn, here its ordinal among the spawns
SubagentTask(task_id, task, label, started_at) ==
    [task_id |-> task_id, task |-> task,
     label |-> IF label = "" THEN task ELSE label,
     status |-> "running", result |-> "", started_at |-> started_at]

\* where a coroutine is when asyncio.create_task returns: scheduled, and
\* not run before the caller gives up control
runs_to_first_await == "running"
create_task_schedules == "created"

\* the coroutine made by asyncio.create_task(manager.run_subagent(...)):
\* its arguments, the turn whose state dict is its state_ref, and where it
\* is: created, running (first provider call made), done
Run(task_id, task, label, ord, ref) ==
    [task_id |-> task_id, task |-> task, label |-> label, ord |-> ord,
     ref |-> ref, pc |-> create_task_schedules, hit |-> 0,
     result |-> Content("none", "", "")]

\* spawn_subagent_node: the first spawn call becomes a background task
SpawnNode ==
    /\ mode = "main"
    /\ node.name = "spawn_subagent"
    /\ steps < RecursionLimit
    /\ LET tcs == Last(state.messages).tool_calls
           k == CHOOSE j \in DOMAIN tcs :
                    tcs[j].name = "spawn" /\ \A h \in 1..(j - 1) : tcs[h].name # "spawn"
           spawn_call == tcs[k]
       IN
       IF \A j \in DOMAIN tcs : tcs[j].name # "spawn"
       THEN \* `if not tool_calls` / `if not spawn_call`: return state
            UNCHANGED <<state, spawned, runs>>
       ELSE \E task_id \in TaskIds :
          LET subagent_task == SubagentTask(task_id, spawn_call.args.task,
                                            spawn_call.args.label, Len(spawned) + 1)
          IN
          /\ spawned' = Append(spawned, subagent_task)
          /\ runs' = Append(runs, Run(task_id, spawn_call.args.task,
                                      spawn_call.args.label, Len(spawned) + 1, turn))
          /\ state' = [state EXCEPT
                          !.subagent_tasks = Append(@, subagent_task),
                          !.messages = Append(@,
                              AssistantMessage(Content("feedback", "", task_id), <<>>))]
    /\ node' = At("update_state")
    /\ steps' = steps + 1
    /\ UNCHANGED <<script, mode, sub, pending, toolLog, turn, past, lastCall>>

\* a cleanup that knows one finished status only
drops_completed_only(st) ==
    [st EXCEPT !.subagent_tasks = SelectSeq(@, LAMBDA t : t.status # "completed")]

\* update_state: finished subagent tasks are dropped
update_state(st) ==
    [st EXCEPT !.subagent_tasks =
        SelectSeq(@, LAMBDA t : t.status \notin {"completed", "failed", "cancelled"})]

\* a task made by create_task is run as soon as its maker gives up control,
\* which the graph does between two nodes: when the node after
\* spawn_subagent begins, the new run has gone up to its first await
AllStarted == \A k \in DOMAIN runs : runs[k].pc # "created"

UpdateNode ==
    /\ mode = "main"
    /\ node.name = "update_state"
    /\ steps < RecursionLimit
    /\ AllStarted
    /\ state' = update_state(state)
    /\ node' = AfterUpdate(state', script.shape)
    /\ steps' = steps + 1
    /\ UNCHANGED <<script, mode, spawned, sub, pending, toolLog>>
    /\ UNCHANGED poolVars

\* the graph runtime's step limit: GraphRecursionError out of ainvoke
GraphRecursion ==
    /\ mode = "main"
    /\ node.name \notin {"raised", "END"}
    /\ node.name = "tools" => node.i = 1
    /\ steps >= RecursionLimit
    /\ AllStarted
    /\ node' = [At("raised") EXCEPT !.cause = "recursion"]
    /\ UNCHANGED <<script, mode, state, steps, spawned, sub, pending, toolLog>>
    /\ UNCHANGED poolVars

\* the first process_message call: no earlier turn, no subagent yet
FirstTurn ==
    /\ turn = 1
    /\ past = <<>>
    /\ runs = <<>>
    /\ lastCall = NoCall

InitMain ==
    /\ mode = "main"
    /\ script \in {[shape |-> sh, provider |-> "any"] : sh \in Shapes}
    /\ node = At("agent")
    /\ state = InitialState
    /\ steps = 0
    /\ spawned = <<>>
    /\ sub = None
    /\ pending = <<>>
    /\ deliveries = <<>>
    /\ toolLog = <<>>
    /\ FirstTurn

(***************************************************************************)
(* Subagent: subagent/manager.py (run_subagent, _announce_completion) and  *)
(* subagent/messenger.py.                                                  *)
(***************************************************************************)
max_iterations == 15

adjust_every == 3

\* What provider, tools and the main agent will do during one subagent run:
\* the tool calls every tool-calling response carries, the positions whose
\* tool raises, the provider call that ends the loop (max_iterations + 1:
\* none) with a final text or a provider failure, and the fate of the
\* adjustment requests.
ScriptsOver(lens, called, ends) ==
    UNION { { [shape |-> [msg |-> "dict", call |-> "dict"],
               names |-> names, fails |-> fails,
               endAt |-> e, endKind |-> k, adjust |-> a] :
                 names \in [1..len -> called], fails \in SUBSET (1..len),
                 e \in ends, k \in {"text", "raise"},
                 a \in {"timeout", "delivered", "publish_fails"} } :
            len \in lens }

AllSubScripts == ScriptsOver(1..MaxCalls, ToolNames, 1..(max_iterations + 1))

\* a loop that no provider call ends has no kind of ending
SubScripts ==
    {sc \in AllSubScripts : sc.endAt <= max_iterations \/ sc.endKind = "text"}

\* runs whose responses carry one tool call, of any name a provider may
\* come up with, ended by one of the given provider calls
OneCallScripts(ends) ==
    {sc \in ScriptsOver({1}, {"read_file", "spawn", "message"}, ends) :
        sc.endAt <= max_iterations \/ sc.endKind = "text"}

\* the response to the n-th provider call of the subagent
ScriptedResponse(sc, n) ==
    IF n = sc.endAt THEN [kind |-> sc.endKind, tool_calls |-> <<>>]
    ELSE [kind |-> "calls",
          tool_calls |-> [j \in DOMAIN sc.names |->
              ToolCallRequest(10 * n + j, sc.names[j],
                  IF sc.names[j] = "spawn"
                  THEN [task |-> CHOOSE t \in Tasks : TRUE, label |-> ""]
                  ELSE NoArgs)]]

\* a SubagentState whose log starts from the message that opened the
\* parent's turn (initial_context put to use)
state_with_initial_context(task_id, task, label) ==
    [task_id |-> task_id, task |-> task, label |-> label,
     messages |-> <<SystemMessage(Content("subagent_prompt", "", task)),
                    InitialState.messages[1],
                    UserMessage(Content("text", "", task))>>,
     iteration |-> 0,
     result |-> Content("none", "", ""),
     status |-> "running",
     pc |-> "loop", i |-> 0, calls |-> <<>>, chats |-> 0, requests |-> {},
     ret |-> [kind |-> "unset", value |-> None]]

\* run_subagent: the initial SubagentState
SubagentState(task_id, task, label) ==
    [task_id |-> task_id, task |-> task, label |-> label,
     messages |-> <<SystemMessage(Content("subagent_prompt", "", task)),
                    UserMessage(Content("text", "", task))>>,
     iteration |-> 0,
     result |-> Content("none", "", ""),
     status |-> "running",
     pc |-> "loop", i |-> 0, calls |-> <<>>, chats |-> 0, requests |-> {},
     ret |-> [kind |-> "unset", value |-> None]]

\* while state["iteration"] < state["max_iterations"]
loop_overruns(n) == n <= max_iterations
loop_continues(n) == n < max_iterations

\* while iteration < max_iterations: iteration += 1; up to `await provider.chat`
SubLoop ==
    /\ mode = "sub"
    /\ sub.pc = "loop"
    /\ sub' = IF loop_continues(sub.iteration)
              THEN [sub EXCEPT !.iteration = @ + 1, !.pc = "chat"]
              ELSE [sub EXCEPT !.pc = "announce"]
    /\ UNCHANGED <<script, mode, node, state, steps, spawned, pending, toolLog>>
    /\ UNCHANGED poolVars

\* provider.chat returned or raised
SubChat ==
    /\ mode = "sub"
    /\ sub.pc = "chat"
    /\ LET resp == ScriptedResponse(script, sub.iteration) IN
       sub' = CASE resp.kind = "raise" ->
                     [sub EXCEPT !.status = "failed",
                                 !.result = Content("error", "", "provider"),
                                 !.chats = @ + 1,
                                 !.pc = "announce"]
                [] resp.kind = "calls" ->
                     [sub EXCEPT !.messages = Append(@,
                                      AssistantMessage(Content("text", "", ""), resp.tool_calls)),
                                 !.chats = @ + 1,
                                 !.pc = "tools", !.i = 1, !.calls = resp.tool_calls]
                [] resp.kind = "text" ->
                     [sub EXCEPT !.result = Content("text", "", "answer"),
                                 !.status = "completed",
                                 !.chats = @ + 1,
                                 !.pc = "announce"]
    /\ UNCHANGED <<script, mode, node, state, steps, spawned, pending, toolLog>>
    /\ UNCHANGED poolVars

\* SubagentToolAdapter._register_tools: the tools a subagent can execute
tools_with_spawn ==
    {"read_file", "write_file", "edit_file", "list_dir", "exec", "web_search",
     "web_fetch", "spawn", "message"}
SubagentTools ==
    {"read_file", "write_file", "edit_file", "list_dir", "exec", "web_search",
     "web_fetch"}

\* `if subagent_state["iteration"] % 3 == 0`, after the tool calls of an
\* iteration
adjust_always(n) == TRUE
adjust_due(n) == n % adjust_every = 0

\* one pass of `for tool_call in response.tool_calls`: the tool returns or
\* raises; a name that is not registered is answered with an error, and a
\* registered spawn or message tool would add a task or publish to the user
SubTool ==
    /\ mode = "sub"
    /\ sub.pc = "tools"
    /\ LET call == sub.calls[sub.i]
           known == call.name \in SubagentTools
           ok   == known /\ sub.i \notin script.fails
           last == sub.i = Len(sub.calls)
       IN
       /\ toolLog' = Append(toolLog, [id |-> call.id, ok |-> ok])
       /\ sub' = [sub EXCEPT
                    !.messages = Append(@,
                        ToolMessage(IF ok THEN Content("result", call.name, "")
                                    ELSE IF known THEN Content("error", "", "exc")
                                    ELSE Content("error", call.name, "not_found"), call)),
                    !.i = IF last THEN 0 ELSE @ + 1,
                    !.calls = IF last THEN <<>> ELSE @,
                    !.pc = IF ~last THEN "tools"
                           ELSE IF adjust_due(sub.iteration) THEN "adjust"
                           ELSE "loop"]
       /\ state' = IF ok /\ call.name = "spawn"
                   THEN [state EXCEPT !.subagent_tasks = Append(@,
                            SubagentTask(CHOOSE t \in TaskIds : t # sub.task_id,
                                         call.args.task, call.args.label, Len(@) + 1))]
                   ELSE state
       /\ outbox' = IF ok /\ call.name = "message"
                    THEN Append(outbox, OutboundMessage("telegram", "c1", "message", 0))
                    ELSE outbox
    /\ UNCHANGED <<inbox, sent, order>>
    /\ UNCHANGED <<script, mode, node, steps, spawned, pending>>
    /\ UNCHANGED poolVars

\* request_adjustment, up to its wait: the queue is created and the request
\* published; a failed publish returns None at once
AdjustmentRequest ==
    <<"[","A","d","j","u","s","t","m","e","n","t"," ","R","e","q","u","e","s","t">>

SubAdjustRequest ==
    /\ mode = "sub"
    /\ sub.pc = "adjust"
    /\ pending' = (sub.task_id :> <<>>) @@ pending
    /\ IF script.adjust = "publish_fails"
       THEN /\ sub' = [sub EXCEPT !.pc = "loop",
                                  !.requests = @ \cup {sub.iteration},
                                  !.ret = [kind |-> "return", value |-> None]]
            /\ UNCHANGED <<inbox, sent>>
       ELSE /\ sub' = [sub EXCEPT !.pc = "adjust_wait",
                                  !.requests = @ \cup {sub.iteration}]
            /\ inbox' = publish_inbound(inbox,
                            InboundMessage(sent + 1, "system", "adjustment_request",
                                           AdjustmentRequest))
            /\ sent' = sent + 1
    /\ UNCHANGED <<outbox, order>>
    /\ UNCHANGED <<script, mode, node, state, steps, spawned, toolLog>>
    /\ UNCHANGED poolVars

\* a delivery that keeps the adjustment for a request still to come
deliver_creates_queue(p, task_id, adjustment) ==
    IF task_id \in DOMAIN p THEN [p EXCEPT ![task_id] = Append(@, adjustment)]
    ELSE (task_id :> <<adjustment>>) @@ p

\* deliver_adjustment: put_nowait on the pending queue, or a logged no-op
deliver_adjustment(p, task_id, adjustment) ==
    IF task_id \in DOMAIN p THEN [p EXCEPT ![task_id] = Append(@, adjustment)] ELSE p

\* the main agent answers a pending request
Deliver ==
    /\ mode = "sub"
    /\ script.adjust = "delivered"
    /\ sub.pc = "adjust_wait"
    /\ pending[sub.task_id] = <<>>
    /\ pending' = deliver_adjustment(pending, sub.task_id, "adjustment")
    /\ UNCHANGED <<script, mode, node, state, steps, spawned, sub, toolLog>>
    /\ UNCHANGED poolVars

\* deliver_adjustment called at any time, for any task_id: late, early,
\* or for a task that never asked
MaxStray == 1

DeliverStray ==
    /\ mode = "sub"
    /\ Len(deliveries) < MaxStray
    /\ \E task_id \in TaskIds :
          LET adjustment == <<"stray1", "stray2", "stray3">>[Len(deliveries) + 1] IN
          /\ pending' = deliver_adjustment(pending, task_id, adjustment)
          /\ deliveries' = Append(deliveries,
                 [task_id |-> task_id, adjustment |-> adjustment,
                  had_entry |-> task_id \in DOMAIN pending,
                  at |-> sub.iteration,
                  during |-> sub.pc,
                  first |-> task_id \in DOMAIN pending /\ pending[task_id] = <<>>,
                  outcome |-> "return",
                  kept |-> pending' = pending])
    /\ UNCHANGED <<script, mode, node, state, steps, spawned, sub, toolLog>>
    /\ UNCHANGED poolVars

\* request_adjustment's `except asyncio.TimeoutError`
timeout_escapes == [kind |-> "raise", value |-> "TimeoutError"]
on_timeout == [kind |-> "return", value |-> None]

\* asyncio.wait_for(queue.get(), timeout=30.0): the wait ends without an
\* adjustment when none is going to be delivered
waits_forever(sc) == FALSE
timeout_fires(sc) == sc.adjust # "delivered"

\* a run_subagent that puts a delivered adjustment into its log
adjustment_applied(s, out) ==
    IF out.value # None
    THEN [s EXCEPT !.messages = Append(@, UserMessage(Content("text", "", "adjustment")))]
    ELSE s

\* `await self.messenger.request_adjustment(...)` as a statement: the
\* returned value is dropped and the subagent's state stays as it was
timeout_fails(s, out) ==
    IF out.value = None THEN [s EXCEPT !.status = "failed"] ELSE s
after_adjustment(s, out) == s

\* the timer of wait_for goes off on an empty queue: queue.get() is
\* cancelled and TimeoutError is on its way to request_adjustment, which
\* has not run yet; its entry is still in the table
TimeoutFires ==
    /\ mode = "sub"
    /\ sub.pc = "adjust_wait"
    /\ pending[sub.task_id] = <<>>
    /\ timeout_fires(script)
    /\ sub' = [sub EXCEPT !.pc = "timed_out"]
    /\ UNCHANGED <<script, mode, node, state, steps, spawned, pending, toolLog>>
    /\ UNCHANGED poolVars

\* request_adjustment returns: the delivered adjustment, or None after the
\* timeout; the entry is popped; run_subagent drops the value
SubAdjustReturn ==
    /\ mode = "sub"
    /\ \/ sub.pc = "adjust_wait" /\ pending[sub.task_id] # <<>>
       \/ sub.pc = "timed_out"
    /\ pending' = [k \in DOMAIN pending \ {sub.task_id} |-> pending[k]]
    /\ LET queue == pending[sub.task_id]
           out == IF sub.pc = "adjust_wait"
                  THEN [kind |-> "return", value |-> Head(queue)]
                  ELSE on_timeout
       IN sub' = [after_adjustment(sub, out) EXCEPT
                     !.ret = out,
                     !.pc = IF out.kind = "raise" THEN "raised" ELSE "loop"]
    /\ UNCHANGED <<script, mode, node, state, steps, spawned, toolLog>>
    /\ UNCHANGED poolVars

\* task_entry["status"] = "completed", whatever the subagent's own status
announced_as_awaiting == "awaiting_adjustment"
announced_status == "completed"

\* _announce_completion on the state the subagent was spawned with
announce_completion(st, task_id, label, task, result) ==
    LET tasks == st.subagent_tasks
        hits  == {j \in DOMAIN tasks : tasks[j].task_id = task_id}
        first == IF hits = {} THEN 0 ELSE CHOOSE j \in hits : \A h \in hits : j <= h
    IN [st EXCEPT
          !.subagent_tasks = [j \in DOMAIN tasks |->
              IF j = first
              THEN [tasks[j] EXCEPT !.status = announced_status,
                                    !.result = IF result.kind = "none" THEN "" ELSE result.kind]
              ELSE tasks[j]],
          !.messages = Append(@, SystemMessage(
              Content("subagent_completed", IF label = "" THEN "subagent" ELSE label,
                      IF result.kind = "none" THEN "No result" ELSE result.kind)))]

SubAnnounce ==
    /\ mode = "sub"
    /\ sub.pc = "announce"
    /\ state' = announce_completion(state, sub.task_id, sub.label, sub.task, sub.result)
    /\ sub' = [sub EXCEPT !.pc = "done"]
    /\ UNCHANGED <<script, mode, node, steps, spawned, pending, toolLog>>
    /\ UNCHANGED poolVars

\* a turn of the main graph has spawned one subagent and gone on
InitSubOf(scripts) ==
    /\ mode = "sub"
    /\ script \in scripts
    /\ \E task_id \in {"a1b2c3d4"}, task \in Tasks :
          LET entry == SubagentTask(task_id, task, "", 1)
              spawn_call == ToolCallRequest(11, "spawn", [task |-> task, label |-> ""])
          IN
          /\ state = [messages |-> <<UserMessage(Content("text", "", "hi")),
                                     AssistantMessage(Content("text", "", ""), <<spawn_call>>),
                                     AssistantMessage(Content("feedback", "", task_id), <<>>)>>,
                      current_tools |-> <<"spawn">>,
                      subagent_tasks |-> <<entry>>]
          /\ spawned = <<entry>>
          /\ sub = SubagentState(task_id, task, "")
    /\ node = At("update_state")
    /\ steps = 2
    /\ pending = <<>>
    /\ deliveries = <<>>
    /\ toolLog = <<>>
    /\ FirstTurn

InitSub == InitSubOf(SubScripts)

(***************************************************************************)
(* The cleanup pass on its own: update_state applied to a state whose      *)
(* task list holds entries of any status; `past` keeps the argument.       *)
(***************************************************************************)
MaxTasks == 2

\* the values of SubagentTask.status named in graph/state.py and in the
\* filter of update_state
TaskStatuses == {"running", "completed", "failed", "cancelled", "awaiting_adjustment"}

InitCleanupPass ==
    /\ mode = "cleanup"
    /\ script = None
    /\ node = At("update_state")
    /\ \E n \in 0..MaxTasks :
          \E ids \in [1..n -> TaskIds], sts \in [1..n -> TaskStatuses] :
             state = [messages |-> <<UserMessage(Content("text", "", "hi")),
                                     AssistantMessage(Content("text", "", "answer"), <<>>)>>,
                      current_tools |-> <<>>,
                      subagent_tasks |-> [j \in 1..n |->
                          [SubagentTask(ids[j], "research", "", j)
                              EXCEPT !.status = sts[j]]]]
    /\ steps = 0
    /\ spawned = <<>>
    /\ sub = None
    /\ pending = <<>>
    /\ deliveries = <<>>
    /\ toolLog = <<>>
    /\ turn = 0
    /\ past = <<>>
    /\ runs = <<>>
    /\ lastCall = NoCall

\* the update_state node is run once on the state it is handed
Cleanup ==
    /\ mode = "cleanup"
    /\ node.name = "update_state"
    /\ state' = update_state(state)
    /\ past' = Append(past, state)
    /\ node' = At("END")
    /\ steps' = steps + 1
    /\ UNCHANGED <<mode, script, spawned, sub, pending, toolLog, turn, runs, lastCall>>

(***************************************************************************)
(* Pool: the turns of one session run one after the other while the        *)
(* subagents they spawned run on; each run holds the state dict of the     *)
(* turn that spawned it (state_ref=state).                                 *)
(***************************************************************************)
MaxTurns == 2

\* how a run of run_subagent can end: final answer, provider failure, or
\* iteration ceiling (result None)
Endings ==
    {Content("text", "", "answer"), Content("error", "", "provider"),
     Content("none", "", "")}

\* the state dict a run holds
RefState(r) == IF r.ref = turn THEN state ELSE past[r.ref]

\* started_at of the entry that _announce_completion updates: the first one
\* carrying the task_id (0: none)
Hit(tasks, task_id) ==
    LET hits == {j \in DOMAIN tasks : tasks[j].task_id = task_id}
    IN IF hits = {} THEN 0
       ELSE tasks[CHOOSE j \in hits : \A h \in hits : j <= h].started_at

\* run_subagent from its start to its first `await provider.chat`
RunStart ==
    /\ mode = "main"
    /\ \E k \in DOMAIN runs :
          /\ runs[k].pc = "created"
          /\ runs' = [runs EXCEPT ![k].pc = "running"]
    /\ UNCHANGED <<script, mode, node, state, steps, spawned, sub, pending, toolLog,
                   turn, past, lastCall>>

\* run_subagent from the return of its last await to the end of
\* _announce_completion, which has no await of its own
RunComplete ==
    /\ mode = "main"
    /\ \E k \in DOMAIN runs, result \in Endings :
          LET r == runs[k]
              new == announce_completion(RefState(r), r.task_id, r.label, r.task, result)
          IN
          /\ r.pc = "running"
          /\ IF r.ref = turn
             THEN state' = new /\ past' = past
             ELSE past' = [past EXCEPT ![r.ref] = new] /\ state' = state
          /\ runs' = [runs EXCEPT ![k] =
                         [r EXCEPT !.pc = "done", !.result = result,
                                   !.hit = Hit(RefState(r).subagent_tasks, r.task_id)]]
          /\ lastCall' = [lastCall EXCEPT !.fresh = @ \cup {k}]
    /\ UNCHANGED <<script, mode, node, steps, spawned, sub, pending, toolLog, turn>>

\* the turn is over (ainvoke raised or returned); the gateway takes the next
\* message of the session and process_message builds a fresh initial_state
\* nothing holds the task made by create_task: the end of a turn leaves the
\* runs it started as they are
cancel_children(rs) ==
    [k \in DOMAIN rs |-> IF rs[k].pc = "done" THEN rs[k]
                         ELSE [rs[k] EXCEPT !.pc = "cancelled"]]
on_turn_end(rs) == rs

NewTurn ==
    /\ mode = "main"
    /\ node.name \in {"raised", "END"}
    /\ turn < MaxTurns
    /\ runs' = on_turn_end(runs)
    /\ past' = Append(past, state)
    /\ turn' = turn + 1
    /\ state' = InitialState
    /\ node' = At("agent")
    /\ steps' = 0
    /\ toolLog' = <<>>
    /\ UNCHANGED <<script, mode, spawned, sub, pending, lastCall>>

InitPool ==
    /\ mode = "main"
    /\ script \in {[shape |-> sh, provider |-> "spawner", spawns |-> n] :
                      sh \in Shapes, n \in 0..MaxRuns}
    /\ node = At("agent")
    /\ state = InitialState
    /\ steps = 0
    /\ spawned = <<>>
    /\ sub = None
    /\ pending = <<>>
    /\ deliveries = <<>>
    /\ toolLog = <<>>
    /\ FirstTurn

(***************************************************************************)
(* Checkpointer: SessionCheckpointer.delete_session over the checkpoints   *)
(* and writes tables (langgraph/checkpointer.py), reached through          *)
(* LangGraphBridge.clear_session.                                          *)
(***************************************************************************)
MaxRows == 2

ThreadIds == {"telegram:1", "cli:1"}

NoDelete == [thread_id |-> "", returned |-> FALSE, checkpoints |-> 0, writes |-> 0]

\* no database in use
DbIdle ==
    db = [checkpoints |-> <<>>, writes |-> <<>>, last |-> NoDelete]

\* the tables as graph runs and the JSON migration have filled them: per
\* thread_id any number of checkpoint rows and of pending-write rows
InitDb ==
    \E c \in [ThreadIds -> 0..MaxRows], w \in [ThreadIds -> 0..MaxRows] :
        db = [checkpoints |-> c, writes |-> w, last |-> NoDelete]

\* cur.rowcount after the two DELETE statements: the rows changed by the
\* statement executed last on the cursor, the DELETE on writes
rowcount(d, thread_id) == d.writes[thread_id]

\* delete_session(thread_id), as clear_session returns it: both DELETEs,
\* then `return cur.rowcount > 0`; db.last keeps the call, what it found
\* and what it returned
DeleteSession ==
    \E thread_id \in ThreadIds :
        db' = [checkpoints |-> [db.checkpoints EXCEPT ![thread_id] = 0],
               writes      |-> [db.writes EXCEPT ![thread_id] = 0],
               last        |-> [thread_id   |-> thread_id,
                                returned    |-> rowcount(db, thread_id) > 0,
                                checkpoints |-> db.checkpoints[thread_id],
                                writes      |-> db.writes[thread_id]]]

(***************************************************************************)
(* Properties of the turn executor.                                        *)
(***************************************************************************)
\* the message log of the turn that runs
TurnLog == IF mode = "main" THEN state.messages ELSE sub.messages

\* tool execution for the latest assistant response is under way or due
InProgress ==
    \/ mode = "main" /\ node.name \in {"tools", "spawn_subagent"}
    \/ mode = "sub" /\ sub.pc = "tools"

CallPositions(L) ==
    {p \in DOMAIN L : L[p].role = "assistant" /\ L[p].tool_calls # <<>>}

CallIds(m) == [j \in DOMAIN m.tool_calls |-> m.tool_calls[j].id]

\* ids of the tool-role messages that directly follow position p
RECURSIVE ToolRun(_, _)
ToolRun(L, p) ==
    IF p + 1 \in DOMAIN L /\ L[p + 1].role = "tool"
    THEN <<L[p + 1].tool_call_id>> \o ToolRun(L, p + 1)
    ELSE <<>>

IsPrefix(a, b) == Len(a) <= Len(b) /\ a = SubSeq(b, 1, Len(a))

Answered(L, p) ==
    IF InProgress /\ \A q \in CallPositions(L) : q <= p
    THEN IsPrefix(ToolRun(L, p), CallIds(L[p]))
    ELSE ToolRun(L, p) = CallIds(L[p])

\* C9: in any turn, main loop or subagent, an assistant response with N tool
\* calls is followed by exactly N tool-role messages, in the order of the
\* calls, the i-th carrying the id of the i-th call.
C9_ToolMessagesMatchCalls ==
    mode \in {"main", "sub"} =>
        \A p \in CallPositions(TurnLog) : Answered(TurnLog, p)

FailedIds == {toolLog[j].id : j \in {h \in DOMAIN toolLog : ~toolLog[h].ok}}

\* C10: a failing tool call does not abort the turn: it leaves exactly one
\* error-content tool message for that call, the other calls of the same
\* response are executed all the same, and the executor goes on (no abort
\* of the graph run, no failed status of the subagent caused by a tool).
C10_ToolFailureContained ==
    mode \in {"main", "sub"} =>
        /\ \A f \in FailedIds :
              /\ Cardinality({p \in DOMAIN TurnLog :
                     TurnLog[p].role = "tool" /\ TurnLog[p].tool_call_id = f}) = 1
              /\ \A p \in DOMAIN TurnLog :
                    (TurnLog[p].role = "tool" /\ TurnLog[p].tool_call_id = f)
                        => TurnLog[p].content.kind \in {"error_executing", "error"}
        /\ \A p \in CallPositions(TurnLog) :
              (\E j \in DOMAIN TurnLog[p].tool_calls : TurnLog[p].tool_calls[j].id \in FailedIds)
                  => Answered(TurnLog, p)
        /\ mode = "main" => node.cause # "tool"
        /\ mode = "sub" =>
              /\ sub.pc \in {"loop", "chat", "tools", "adjust", "adjust_wait", "timed_out"}
                    => sub.status = "running"
              /\ sub.status = "failed"
                    => (script.endKind = "raise" /\ sub.iteration = script.endAt)

\* the first of several calls failed, the others were executed, and the
\* provider was called again
C10_Witness ==
    /\ mode \in {"main", "sub"}
    /\ \E p \in CallPositions(TurnLog), q \in DOMAIN TurnLog :
          /\ Len(TurnLog[p].tool_calls) >= 2
          /\ TurnLog[p].tool_calls[1].id \in FailedIds
          /\ q > p + Len(TurnLog[p].tool_calls)
          /\ TurnLog[q].role = "assistant"

\* an assistant message that a provider call of the main loop produced
FromProvider(m) == m.role = "assistant" /\ m.content.kind # "feedback"

\* the subagent got the provider response that ends its loop
SubEnded(kind) ==
    /\ mode = "sub"
    /\ script.endKind = kind
    /\ sub.iteration = script.endAt
    /\ sub.pc # "chat"

\* C11: a provider response without tool calls ends the turn: the status
\* becomes completed, the result is the response text, and the provider is
\* not called again in that turn (subagent and main loop).
C11_TextEndsTurn ==
    /\ SubEnded("text") =>
          /\ sub.status = "completed"
          /\ sub.result = Content("text", "", "answer")
          /\ sub.pc \in {"announce", "done"}
    /\ mode = "main" =>
          \A p \in DOMAIN state.messages :
             (FromProvider(state.messages[p])
                 /\ state.messages[p].tool_calls = <<>>
                 /\ state.messages[p].content.kind = "text")
               => \A q \in DOMAIN state.messages :
                     q > p => ~FromProvider(state.messages[q])

\* C12: a failed provider call ends the turn: status failed, the error
\* description as result, no tool message appended, and the provider is not
\* called again in that turn (subagent and main loop).
C12_ProviderFailureEndsTurn ==
    /\ SubEnded("raise") =>
          /\ sub.status = "failed"
          /\ sub.result = Content("error", "", "provider")
          /\ sub.pc \in {"announce", "done"}
          /\ Len(sub.messages) = 2 + (script.endAt - 1) * (1 + Len(script.names))
    /\ mode = "main" =>
          \A p \in DOMAIN state.messages :
             (FromProvider(state.messages[p])
                 /\ state.messages[p].content.kind = "error")
               => \A q \in DOMAIN state.messages :
                     q > p => (~FromProvider(state.messages[q])
                                 /\ state.messages[q].role # "tool")

\* the subagent left its loop because iteration reached max_iterations,
\* having received no adjustment
CeilingExceeded ==
    /\ mode = "sub"
    /\ script.endAt > max_iterations
    /\ script.adjust # "delivered"
    /\ sub.iteration = max_iterations
    /\ sub.pc = "done"

NonCompletedTerminal == {"failed", "cancelled"}

\* C13: a subagent that gets no adjustment and exceeds its iteration
\* ceiling ends, without raising, in a terminal status other than
\* "completed" (in its own state or in its SubagentTask entry).
C13_CeilingNotCompleted ==
    CeilingExceeded =>
        \/ sub.status \in NonCompletedTerminal
        \/ \E j \in DOMAIN state.subagent_tasks :
              /\ state.subagent_tasks[j].task_id = sub.task_id
              /\ state.subagent_tasks[j].status \in NonCompletedTerminal

\* C19: request_adjustment raises nothing, and returns None when no
\* adjustment was delivered for its task_id before the timeout.
C19_TimeoutReturnsNone ==
    mode = "sub" =>
        /\ sub.ret.kind # "raise"
        /\ (sub.ret.kind = "return" /\ script.adjust # "delivered")
              => sub.ret.value = None

\* a request timed out, returned None, and the subagent went on
C19_Witness ==
    /\ mode = "sub"
    /\ script.adjust = "timeout"
    /\ sub.ret = [kind |-> "return", value |-> None]
    /\ sub.iteration > adjust_every
    /\ sub.pc = "tools"

\* C20: when no request_adjustment call is in flight for a task_id, the
\* pending-adjustment table holds no entry for that task_id.
C20_NoPendingLeak ==
    mode = "sub" =>
        (sub.pc \notin {"adjust_wait", "timed_out"} => sub.task_id \notin DOMAIN pending)

\* C21: a deliver_adjustment call for a task_id that has no pending entry
\* (timed out already, or unknown) is dropped: it raises nothing, leaves the
\* pending table as it was, and no request_adjustment call ever returns the
\* dropped adjustment.
C21_DroppedDelivery ==
    mode = "sub" =>
        \A j \in DOMAIN deliveries :
            ~deliveries[j].had_entry =>
                /\ deliveries[j].outcome = "return"
                /\ deliveries[j].kept
                /\ sub.ret.value # deliveries[j].adjustment
                /\ \A k \in DOMAIN pending :
                      \A q \in DOMAIN pending[k] :
                          pending[k][q] # deliveries[j].adjustment

\* an adjustment came after the first request had timed out and was dropped;
\* the second request of the same task timed out as well
C21_Witness ==
    /\ mode = "sub"
    /\ script.adjust = "timeout"
    /\ Len(deliveries) = 1
    /\ deliveries[1].task_id = sub.task_id
    /\ ~deliveries[1].had_entry
    /\ deliveries[1].at \in adjust_every..(2 * adjust_every - 1)
    /\ sub.iteration = 2 * adjust_every + 1
    /\ sub.ret = [kind |-> "return", value |-> None]

\* C22: when an adjustment request times out the subagent goes on with its
\* loop, its message log, iteration counter, status and result being what
\* they were before the request; the timeout is not a failure.
C22_TimeoutKeepsState ==
    [][(mode = "sub" /\ script.adjust = "timeout"
            /\ sub.pc \in {"adjust", "adjust_wait", "timed_out"})
        => /\ sub'.messages = sub.messages
           /\ sub'.iteration = sub.iteration
           /\ sub'.status = sub.status
           /\ sub'.result = sub.result
           /\ sub'.pc \in {"adjust_wait", "timed_out", "loop"}]_vars

\* the request timed out and the next provider call is under way
C22_Witness ==
    /\ mode = "sub"
    /\ script.adjust = "timeout"
    /\ sub.ret = [kind |-> "return", value |-> None]
    /\ sub.iteration = adjust_every + 1
    /\ sub.pc = "chat"
    /\ sub.status = "running"

\* C24: a running subagent cannot spawn a subagent or message a user: its
\* tool set holds no spawn tool and no message tool, so none of its tool
\* calls adds a SubagentTask entry or publishes an outbound message.
C24_NoSpawnNoMessage ==
    mode = "sub" =>
        /\ "spawn" \notin SubagentTools
        /\ "message" \notin SubagentTools
        /\ state.subagent_tasks = [j \in DOMAIN spawned |->
               [spawned[j] EXCEPT !.status = state.subagent_tasks[j].status,
                                  !.result = state.subagent_tasks[j].result]]
        /\ Len(state.subagent_tasks) = 1
        /\ outbox = <<>>

\* the provider asked the subagent for a spawn three times and the run ended
C24_Witness ==
    /\ mode = "sub"
    /\ script.names = <<"spawn">>
    /\ 1 \notin script.fails
    /\ Len(toolLog) = 3
    /\ sub.pc = "done"

\* positions <<p, j>> of the spawn calls the provider has issued this turn
SpawnCalls ==
    {c \in (DOMAIN state.messages) \X (1..MaxCalls) :
        /\ FromProvider(state.messages[c[1]])
        /\ c[2] \in DOMAIN state.messages[c[1]].tool_calls
        /\ state.messages[c[1]].tool_calls[c[2]].name = "spawn"}

\* C25: a tool call named spawn issued by the main loop is handled by the
\* spawn path (once the graph is past it, it has started a subagent) and is
\* never executed through the tool registry.
C25_SpawnCallSpawns ==
    mode = "main" =>
        /\ \A j \in DOMAIN toolLog :
              \A c \in SpawnCalls :
                  state.messages[c[1]].tool_calls[c[2]].id # toolLog[j].id
        /\ (node.name \in {"agent", "END"} \/ (node.name = "raised" /\ node.cause = "router"))
              => Cardinality(SpawnCalls) = Len(spawned)

\* C29: a subagent makes at most max_iterations (15) provider calls; when the
\* ceiling is reached its loop ends as any loop ends, and nothing is raised.
C29_ProviderCallCeiling ==
    mode = "sub" =>
        /\ sub.chats <= max_iterations
        /\ sub.pc # "raised"
        /\ (script.endAt > max_iterations /\ sub.pc \in {"announce", "done"})
              => (sub.chats = max_iterations /\ sub.ret.kind # "raise")

\* fifteen provider calls asked for tools, and the run ended with its announcement
C29_Witness ==
    /\ mode = "sub"
    /\ script.endAt > max_iterations
    /\ sub.chats = max_iterations
    /\ sub.pc = "done"

C31_DeliveredIsReturned ==
    [][(/\ mode = "sub"
        /\ sub.pc \in {"adjust_wait", "timed_out"}
        /\ sub'.pc = "loop")
       => \A k \in DOMAIN deliveries :
             (/\ deliveries[k].task_id = sub.task_id
              /\ deliveries[k].had_entry
              /\ deliveries[k].first
              /\ deliveries[k].at = sub.iteration
              /\ deliveries[k].during \in {"adjust_wait", "timed_out"})
             => sub'.ret = [kind |-> "return",
                            value |-> deliveries[k].adjustment]]_vars

\* C32: request_adjustment is never started for a task_id that already has
\* an entry in the pending-adjustment table, so that no pending queue is
\* overwritten by line 25.
C32_RequestFindsNoEntry ==
    (mode = "sub" /\ sub.pc = "adjust") => sub.task_id \notin DOMAIN pending

\* C33 as stated: a finished subagent has issued an adjustment request
\* after every iteration it ran whose number is a multiple of 3, and after
\* no other.
C33_RequestAfterEveryThird ==
    (mode = "sub" /\ sub.pc = "done")
    => sub.requests = {n \in 1..sub.iteration : n % adjust_every = 0}

\* C33, amended: between iterations and at the end, the adjustment requests
\* issued are those of the iterations whose number is a multiple of 3 and
\* whose response carried tool calls; the iteration that ends the loop with
\* a final answer or a provider failure issues none.
C33_RequestAfterThirdToolIteration ==
    (mode = "sub" /\ sub.pc \in {"loop", "adjust_wait", "timed_out", "announce", "done"})
    => LET assistants == SelectSeq(sub.messages, LAMBDA m : m.role = "assistant")
           carried(n) == n <= Len(assistants) /\ assistants[n].tool_calls # <<>>
       IN sub.requests = {n \in 1..sub.iteration :
                             n % adjust_every = 0 /\ carried(n)}

\* a subagent that used up its iterations has asked five times
C33_Witness ==
    /\ mode = "sub"
    /\ sub.pc = "done"
    /\ sub.iteration = max_iterations
    /\ sub.requests = {3, 6, 9, 12, 15}

\* C34: once the manager has announced the end of a subagent, the status in
\* its SubagentTask entry matches how it ended: "completed" after a final
\* answer, "failed" after a provider failure, and not "completed" after the
\* iteration ceiling.
C34_StatusMatchesEnding ==
    (mode = "sub" /\ sub.pc = "done")
    => \A j \in DOMAIN state.subagent_tasks :
          state.subagent_tasks[j].task_id = sub.task_id
          => CASE sub.result.kind = "text" ->
                     state.subagent_tasks[j].status = "completed"
               [] sub.result.kind = "error" ->
                     state.subagent_tasks[j].status = "failed"
               [] OTHER ->
                     state.subagent_tasks[j].status # "completed"

\* C35: when the spawn calls of the assistant responses are accepted by the
\* router (attribute-style messages and calls), every one of them has
\* created one SubagentTask entry and started one subagent by the time the
\* graph is back at the agent node or at its end, also when one response
\* carries several spawn calls.
C35_OneSubagentPerSpawnCall ==
    (/\ mode = "main"
     /\ script.shape = [msg |-> "obj", call |-> "obj"]
     /\ node.name \in {"agent", "END"})
    => /\ Len(spawned) = Cardinality(SpawnCalls)
       /\ \A c \in SpawnCalls :
             Cardinality({j \in DOMAIN spawned :
                 spawned[j].task = state.messages[c[1]].tool_calls[c[2]].args.task}) >= 1

\* C36: the cleanup pass removes exactly the entries whose status is
\* completed, failed or cancelled; every other entry is still there,
\* unchanged and in the same relative order, and the message log is the one
\* the pass was handed.
C36_CleanupRemovesFinished ==
    (mode = "cleanup" /\ node.name = "END")
    => LET before == past[1].subagent_tasks
           after  == state.subagent_tasks
           keep   == {j \in DOMAIN before :
                         before[j].status \notin {"completed", "failed", "cancelled"}}
           rank(j) == Cardinality({h \in keep : h <= j})
       IN /\ Len(after) = Cardinality(keep)
          /\ \A j \in keep : after[rank(j)] = before[j]
          /\ state.messages = past[1].messages

\* a cancelled entry ahead of a waiting one: the waiting one is left
C36_Witness ==
    /\ mode = "cleanup"
    /\ node.name = "END"
    /\ Len(past[1].subagent_tasks) = 2
    /\ past[1].subagent_tasks[1].status = "cancelled"
    /\ past[1].subagent_tasks[2].status = "awaiting_adjustment"
    /\ state.subagent_tasks = <<past[1].subagent_tasks[2]>>

\* C37: message logs are append-only. Over every step of the main graph,
\* of the subagent loop and of the completion announcement, the log of the
\* turn and the log of the subagent before the step are prefixes of the
\* logs after it: nothing appended earlier is changed, moved or removed.
C37_LogsAppendOnly ==
    [][/\ mode \in {"main", "sub"}
          => /\ Len(state.messages) <= Len(state'.messages)
             /\ \A j \in DOMAIN state.messages :
                   state'.messages[j] = state.messages[j]
       /\ mode = "sub"
          => /\ Len(sub.messages) <= Len(sub'.messages)
             /\ \A j \in DOMAIN sub.messages :
                   sub'.messages[j] = sub.messages[j]]_vars

\* a subagent that ran tool calls has announced its end: both logs grew
C37_Witness ==
    /\ mode = "sub"
    /\ sub.pc = "done"
    /\ Len(sub.messages) > 4
    /\ Len(state.messages) > Len(InitialState.messages) + 2

RECURSIVE ResponsesLog(_, _, _)
ResponsesLog(sc, task, n) ==
    IF n = 0
    THEN <<SystemMessage(Content("subagent_prompt", "", task)),
           UserMessage(Content("text", "", task))>>
    ELSE LET calls == ScriptedResponse(sc, n).tool_calls
             answer(j) ==
                 ToolMessage(IF calls[j].name \notin SubagentTools
                             THEN Content("error", calls[j].name, "not_found")
                             ELSE IF j \in sc.fails THEN Content("error", "", "exc")
                             ELSE Content("result", calls[j].name, ""), calls[j])
         IN ResponsesLog(sc, task, n - 1)
            \o <<AssistantMessage(Content("text", "", ""), calls)>>
            \o [j \in DOMAIN calls |-> answer(j)]

\* C39: what request_adjustment returned, an adjustment or none, changes
\* nothing of the subagent: at each provider call the iteration counter,
\* the number of calls made and the message list handed over are what the
\* earlier responses and tool outcomes alone make them, and the status and
\* result are still the initial ones.
C39_OutcomeChangesNothing ==
    (mode = "sub" /\ sub.pc = "chat")
    => /\ sub.messages = ResponsesLog(script, sub.task, sub.iteration - 1)
       /\ sub.chats = sub.iteration - 1
       /\ sub.status = "running"
       /\ sub.result = Content("none", "", "")

\* the provider call that follows a request answered with an adjustment
C39_Witness ==
    /\ mode = "sub"
    /\ sub.pc = "chat"
    /\ sub.iteration = adjust_every + 1
    /\ sub.ret.kind = "return"
    /\ sub.ret.value \notin {None, "stray1"}

\* C40: delete_session(thread_id) returns True exactly when it deleted a
\* row of that thread_id from the checkpoints table or from the writes
\* table, and afterwards neither table holds a row for it.
C40_DeleteReportsDeletion ==
    db.last # NoDelete
    => /\ db.last.returned <=> (db.last.checkpoints > 0 \/ db.last.writes > 0)
       /\ db.checkpoints[db.last.thread_id] = 0
       /\ db.writes[db.last.thread_id] = 0

(***************************************************************************)
(* Properties of the subagent pool.                                        *)
(***************************************************************************)
\* the state dicts of the session, one per turn, the current one last
Logs == past \o <<state>>

LogsNext == past' \o <<state'>>

TaskEntries(L) ==
    UNION {{L[t].subagent_tasks[j] : j \in DOMAIN L[t].subagent_tasks} : t \in DOMAIN L}

\* status of the entry made by the s-th spawn, "absent" when no list holds it
StatusOf(L, s) ==
    IF \E e \in TaskEntries(L) : e.started_at = s
    THEN (CHOOSE e \in TaskEntries(L) : e.started_at = s).status
    ELSE "absent"

Terminal == {"completed", "failed", "cancelled"}

\* C14: the status of a SubagentTask entry only moves from running to
\* completed, failed or cancelled; no operation (subagent completion,
\* cleanup pass, spawn, next turn) changes the status of a terminal entry:
\* it keeps its status until the cleanup pass removes it.
C14_StatusMonotone ==
    [][mode = "main" =>
        \A s \in 1..Len(spawned') :
           LET a == StatusOf(Logs, s)
               b == StatusOf(LogsNext, s)
           IN \/ a = b
              \/ a = "absent" /\ b = "running" /\ s > Len(spawned)
              \/ a = "running" /\ b \in Terminal
              \/ a \in Terminal /\ b = "absent"]_vars

\* two subagents completed on the same entry: the second completion found
\* it terminal already
C14_Witness ==
    /\ mode = "main"
    /\ \E k1, k2 \in DOMAIN runs :
          /\ k1 # k2
          /\ runs[k1].pc = "done" /\ runs[k2].pc = "done"
          /\ runs[k1].hit # 0
          /\ runs[k1].hit = runs[k2].hit
          /\ StatusOf(Logs, runs[k1].hit) = "completed"

\* C15: no two SubagentTask entries ever created carry the same task_id.
C15_TaskIdNeverReused ==
    \A i, j \in DOMAIN spawned :
        i # j => spawned[i].task_id # spawned[j].task_id

IsSummary(m) == m.role = "system" /\ m.content.kind = "subagent_completed"

Summaries(st) ==
    Cardinality({p \in DOMAIN st.messages : IsSummary(st.messages[p])})

DoneRuns == {k \in DOMAIN runs : runs[k].pc = "done"}

\* C16: every finished subagent run, however it ended, has updated its own
\* SubagentTask entry and has appended exactly one system-role completion
\* message to the message log of its parent.
C16_OwnRecordOneMessage ==
    mode = "main" =>
        /\ \A k \in DoneRuns : runs[k].hit = runs[k].ord
        /\ \A t \in DOMAIN Logs :
              Summaries(Logs[t]) = Cardinality({k \in DoneRuns : runs[k].ref = t})

\* the entry of run k in the task list of its parent is gone (cleaned up)
\* or holds the completion of run k
Applied(k) ==
    \A e \in TaskEntries(Logs) :
        e.started_at = runs[k].ord =>
            /\ e.status = "completed"
            /\ e.result = (IF runs[k].result.kind = "none" THEN ""
                           ELSE runs[k].result.kind)

\* C17: when two subagents of one parent have both terminated, in whatever
\* order relative to each other and to the cleanup pass, both completion
\* records are applied to the shared task list and both completion
\* messages are in the parent's message log.
C17_NoLostUpdate ==
    mode = "main" =>
        \A k1, k2 \in DoneRuns :
            (k1 # k2 /\ runs[k1].ref = runs[k2].ref) =>
                /\ Applied(k1)
                /\ Applied(k2)
                /\ Summaries(Logs[runs[k1].ref]) >= 2

\* the completion message of run k is in the message list given to a
\* provider call: the call read the log the run appended to
Contains(call, k) ==
    /\ call.turn = runs[k].ref
    /\ \E p \in DOMAIN call.messages :
          /\ IsSummary(call.messages[p])
          /\ call.messages[p].content.detail =
                (IF runs[k].result.kind = "none" THEN "No result"
                 ELSE runs[k].result.kind)

\* C18: the completion messages appended since the previous main-loop
\* provider call are all in the message list of the next provider call.
C18_SummarySeenByNextCall ==
    mode = "main" => \A k \in lastCall.owed : Contains(lastCall, k)

\* C23: spawning records the SubagentTask entry as running and starts the
\* subagent without waiting for it: when the spawn step returns, the entry
\* is in the task list and the subagent has made no provider call yet.
C23_SpawnReturnsFirst ==
    [][(mode = "main" /\ Len(runs') > Len(runs))
        => LET r == runs'[Len(runs')] IN
           /\ r.pc = "created"
           /\ \E j \in DOMAIN state'.subagent_tasks :
                 /\ state'.subagent_tasks[j].task_id = r.task_id
                 /\ state'.subagent_tasks[j].started_at = r.ord
                 /\ state'.subagent_tasks[j].status = "running"
           /\ node'.name = "update_state"]_vars

\* the spawn step of the second turn has returned, the feedback message is
\* in the log, and the subagent has not made its first provider call
C23_Witness ==
    /\ mode = "main"
    /\ node.name = "update_state"
    /\ turn = 2
    /\ Last(state.messages).content.kind = "feedback"
    /\ \E k \in DOMAIN runs :
          /\ runs[k].pc = "created"
          /\ runs[k].ref = turn
          /\ \E j \in DOMAIN state.subagent_tasks :
                /\ state.subagent_tasks[j].started_at = runs[k].ord
                /\ state.subagent_tasks[j].status = "running"

FirstInk(s) ==
    LET ink == {i \in DOMAIN s : s[i] \notin Whitespace}
    IN IF ink = {} THEN 0 ELSE CHOOSE i \in ink : \A j \in ink : i <= j

\* position of the last non-whitespace character of s (0: none)
LastInk(s) ==
    LET ink == {i \in DOMAIN s : s[i] \notin Whitespace}
    IN IF ink = {} THEN 0 ELSE CHOOSE i \in ink : \A j \in ink : j <= i

\* end of the run of non-whitespace characters that starts at position i
InkEnd(s, i) ==
    CHOOSE j \in i..Len(s) :
        /\ \A k \in i..j : s[k] \notin Whitespace
        /\ j = Len(s) \/ s[j + 1] \in Whitespace

\* a and b differ only in surrounding whitespace and in the letter case of
\* their first token
SameCommandText(a, b) ==
    LET ia == FirstInk(a)
        ib == FirstInk(b)
    IN IF ia = 0 \/ ib = 0 THEN ia = ib
       ELSE LET ca == SubSeq(a, ia, LastInk(a))
                cb == SubSeq(b, ib, LastInk(b))
                e  == InkEnd(ca, 1)
            IN /\ Len(ca) = Len(cb)
               /\ \A k \in DOMAIN ca :
                     IF k <= e THEN LowerChar(ca[k]) = LowerChar(cb[k])
                     ELSE ca[k] = cb[k]

\* C27: parse_command returns none exactly when the whitespace-trimmed text
\* does not start with "/", and otherwise the lowercased first
\* whitespace-delimited token; texts that differ only in surrounding
\* whitespace and in the letter case of the command parse alike.
C27_ParseCommand ==
    cmdOut.pc \in {"parsed", "classified"} =>
        LET i == FirstInk(cmdIn) IN
        /\ cmdOut.parsed = NoCommand <=> (i = 0 \/ cmdIn[i] # "/")
        /\ (i # 0 /\ cmdIn[i] = "/") =>
               /\ Len(cmdOut.parsed) = InkEnd(cmdIn, i) - i + 1
               /\ \A k \in DOMAIN cmdOut.parsed :
                     /\ cmdOut.parsed[k] = LowerChar(cmdIn[i + k - 1])
                     /\ \A u \in DOMAIN Uppers : cmdOut.parsed[k] # Uppers[u]
        /\ \A v \in CommandInputs :
               SameCommandText(v, cmdIn) => parse_command(v) = cmdOut.parsed

C27_Witness ==
    /\ cmdOut.pc = "parsed"
    /\ cmdIn = <<"\n", "\t", "/", "S", "T", "O", "P", " ">>
    /\ cmdOut.parsed = CmdStop

\* C28: is_immediate_command is true only for a registered command whose
\* immediate flag is set: true for /stop, false for /new and /help, false
\* for every command that is not in the registry; it always returns a boolean.
C28_ImmediateOnlyStop ==
    cmdOut.pc = "classified" =>
        /\ cmdOut.immediate \in BOOLEAN
        /\ cmdOut.immediate => (cmdOut.cmd \in DOMAIN COMMANDS /\ COMMANDS[cmdOut.cmd])
        /\ cmdOut.cmd = CmdStop => cmdOut.immediate
        /\ cmdOut.cmd \in {CmdNew, CmdHelp} => ~cmdOut.immediate
        /\ cmdOut.cmd \notin {CmdStop, CmdNew, CmdHelp} => ~cmdOut.immediate

C28_Witness ==
    /\ cmdOut.pc = "classified"
    /\ cmdIn = <<" ", "/", "S", "t", "o", "p", " ">>
    /\ cmdOut.cmd = CmdStop
    /\ cmdOut.immediate

LoopIdle ==
    /\ loopPc = None
    /\ dispatches = <<>>
    /\ active_tasks = <<>>
    /\ locks = <<>>
    /\ stops = <<>>

TurnIdle ==
    /\ mode = "none"
    /\ script = None
    /\ node = None
    /\ state = None
    /\ steps = 0
    /\ spawned = <<>>
    /\ sub = None
    /\ pending = <<>>
    /\ toolLog = <<>>
    /\ turn = 0
    /\ past = <<>>
    /\ runs = <<>>
    /\ lastCall = NoCall
    /\ deliveries = <<>>

CmdIdle ==
    /\ cmdIn = <<>>
    /\ cmdOut = NoResult

InitGateway == BusInit /\ GwInit /\ LoopIdle /\ TurnIdle /\ CmdIdle /\ DbIdle

NextGateway ==
    \/ Submit /\ UNCHANGED <<gwVars, loopVars, turnVars, poolVars, cmdVars, deliveries, db>>
    \/ GatewayConsume /\ UNCHANGED <<loopVars, turnVars, poolVars, cmdVars, deliveries, db>>
    \/ ProcessReturn /\ UNCHANGED <<loopVars, turnVars, poolVars, cmdVars, deliveries, db>>
    \/ ProcessRaise /\ UNCHANGED <<loopVars, turnVars, poolVars, cmdVars, deliveries, db>>
    \/ GatewayInterrupt /\ UNCHANGED <<loopVars, turnVars, poolVars, cmdVars, deliveries, db>>

SpecGateway == InitGateway /\ [][NextGateway]_vars

InitLoop == BusInit /\ LoopInit /\ GwIdle /\ TurnIdle /\ CmdIdle /\ DbIdle

NextLoop ==
    \/ Submit /\ UNCHANGED <<gwVars, loopVars, turnVars, poolVars, cmdVars, deliveries, db>>
    \/ LoopConsume /\ UNCHANGED <<gwVars, turnVars, poolVars, cmdVars, deliveries, db>>
    \/ DispatchResume /\ UNCHANGED <<gwVars, turnVars, poolVars, cmdVars, deliveries, db>>
    \/ TurnEnd /\ UNCHANGED <<gwVars, turnVars, poolVars, cmdVars, deliveries, db>>
    \/ TurnCancelled /\ UNCHANGED <<gwVars, turnVars, poolVars, cmdVars, deliveries, db>>
    \/ StopConfirm /\ UNCHANGED <<gwVars, turnVars, poolVars, cmdVars, deliveries, db>>

SpecLoop == InitLoop /\ [][NextLoop]_vars

BusIdle == BusInit

InitTurn == BusIdle /\ GwIdle /\ LoopIdle /\ CmdIdle /\ DbIdle /\ (InitMain \/ InitSub)

NextTurn ==
    \/ AgentNode /\ UNCHANGED <<busVars, gwVars, loopVars, cmdVars, deliveries, db>>
    \/ ToolsNode /\ UNCHANGED <<busVars, gwVars, loopVars, cmdVars, deliveries, db>>
    \/ SpawnNode /\ UNCHANGED <<busVars, gwVars, loopVars, cmdVars, deliveries, db>>
    \/ UpdateNode /\ UNCHANGED <<busVars, gwVars, loopVars, cmdVars, deliveries, db>>
    \/ GraphRecursion /\ UNCHANGED <<busVars, gwVars, loopVars, cmdVars, deliveries, db>>
    \/ RunStart /\ UNCHANGED <<busVars, gwVars, loopVars, cmdVars, deliveries, db>>
    \/ SubLoop /\ UNCHANGED <<busVars, gwVars, loopVars, cmdVars, deliveries, db>>
    \/ SubChat /\ UNCHANGED <<busVars, gwVars, loopVars, cmdVars, deliveries, db>>
    \/ SubTool /\ UNCHANGED <<gwVars, loopVars, cmdVars, deliveries, db>>
    \/ SubAdjustRequest /\ UNCHANGED <<gwVars, loopVars, cmdVars, deliveries, db>>
    \/ Deliver /\ UNCHANGED <<busVars, gwVars, loopVars, cmdVars, deliveries, db>>
    \/ TimeoutFires /\ UNCHANGED <<busVars, gwVars, loopVars, cmdVars, deliveries, db>>
    \/ SubAdjustReturn /\ UNCHANGED <<busVars, gwVars, loopVars, cmdVars, deliveries, db>>
    \/ SubAnnounce /\ UNCHANGED <<busVars, gwVars, loopVars, cmdVars, deliveries, db>>

SpecTurn == InitTurn /\ [][NextTurn]_vars

InitSession == BusIdle /\ GwIdle /\ LoopIdle /\ CmdIdle /\ DbIdle /\ InitPool

NextPool ==
    \/ AgentNode /\ UNCHANGED <<busVars, gwVars, loopVars, cmdVars, deliveries, db>>
    \/ SpawnNode /\ UNCHANGED <<busVars, gwVars, loopVars, cmdVars, deliveries, db>>
    \/ UpdateNode /\ UNCHANGED <<busVars, gwVars, loopVars, cmdVars, deliveries, db>>
    \/ GraphRecursion /\ UNCHANGED <<busVars, gwVars, loopVars, cmdVars, deliveries, db>>
    \/ RunStart /\ UNCHANGED <<busVars, gwVars, loopVars, cmdVars, deliveries, db>>
    \/ RunComplete /\ UNCHANGED <<busVars, gwVars, loopVars, cmdVars, deliveries, db>>
    \/ NewTurn /\ UNCHANGED <<busVars, gwVars, loopVars, cmdVars, deliveries, db>>

SpecPool == InitSession /\ [][NextPool]_vars

\* short runs, with two adjustment requests in the longest
InitMessenger ==
    BusIdle /\ GwIdle /\ LoopIdle /\ CmdIdle /\ DbIdle
        /\ InitSubOf(OneCallScripts(1..(2 * adjust_every + 1)))

NextSub ==
    \/ SubLoop /\ UNCHANGED <<busVars, gwVars, loopVars, cmdVars, deliveries, db>>
    \/ SubChat /\ UNCHANGED <<busVars, gwVars, loopVars, cmdVars, deliveries, db>>
    \/ SubTool /\ UNCHANGED <<gwVars, loopVars, cmdVars, deliveries, db>>
    \/ SubAdjustRequest /\ UNCHANGED <<gwVars, loopVars, cmdVars, deliveries, db>>
    \/ Deliver /\ UNCHANGED <<busVars, gwVars, loopVars, cmdVars, deliveries, db>>
    \/ TimeoutFires /\ UNCHANGED <<busVars, gwVars, loopVars, cmdVars, deliveries, db>>
    \/ SubAdjustReturn /\ UNCHANGED <<busVars, gwVars, loopVars, cmdVars, deliveries, db>>
    \/ SubAnnounce /\ UNCHANGED <<busVars, gwVars, loopVars, cmdVars, deliveries, db>>

NextMessenger ==
    \/ NextSub
    \/ DeliverStray /\ UNCHANGED <<busVars, gwVars, loopVars, cmdVars, db>>

SpecMessenger == InitMessenger /\ [][NextMessenger]_vars

\* runs of every length, up to the iteration ceiling
InitRun ==
    BusIdle /\ GwIdle /\ LoopIdle /\ CmdIdle /\ DbIdle
        /\ InitSubOf(OneCallScripts(1..(max_iterations + 1)))

\* the event loop runs every coroutine that can go on; the main agent
\* answers when the script says it does; the timer of wait_for fires
RunFairness ==
    /\ WF_vars(SubLoop /\ UNCHANGED <<busVars, gwVars, loopVars, cmdVars, deliveries, db>>)
    /\ WF_vars(SubChat /\ UNCHANGED <<busVars, gwVars, loopVars, cmdVars, deliveries, db>>)
    /\ WF_vars(SubTool /\ UNCHANGED <<gwVars, loopVars, cmdVars, deliveries, db>>)
    /\ WF_vars(SubAdjustRequest /\ UNCHANGED <<gwVars, loopVars, cmdVars, deliveries, db>>)
    /\ WF_vars(Deliver /\ UNCHANGED <<busVars, gwVars, loopVars, cmdVars, deliveries, db>>)
    /\ WF_vars(TimeoutFires /\ UNCHANGED <<busVars, gwVars, loopVars, cmdVars, deliveries, db>>)
    /\ WF_vars(SubAdjustReturn /\ UNCHANGED <<busVars, gwVars, loopVars, cmdVars, deliveries, db>>)
    /\ WF_vars(SubAnnounce /\ UNCHANGED <<busVars, gwVars, loopVars, cmdVars, deliveries, db>>)

SpecRunLive == InitRun /\ [][NextSub]_vars /\ RunFairness

InitCleanup == BusIdle /\ GwIdle /\ LoopIdle /\ CmdIdle /\ DbIdle /\ InitCleanupPass

NextCleanup ==
    Cleanup /\ UNCHANGED <<busVars, gwVars, loopVars, cmdVars, deliveries, db>>

SpecCleanup == InitCleanup /\ [][NextCleanup]_vars

InitCheckpointer == BusIdle /\ GwIdle /\ LoopIdle /\ TurnIdle /\ CmdIdle /\ InitDb

NextCheckpointer ==
    DeleteSession /\ UNCHANGED <<busVars, gwVars, loopVars, turnVars, poolVars,
                                 cmdVars, deliveries>>

SpecCheckpointer == InitCheckpointer /\ [][NextCheckpointer]_vars

InitParser == BusIdle /\ GwIdle /\ LoopIdle /\ TurnIdle /\ DbIdle /\ InitCommands

NextCommands ==
    \/ ParseCommand /\ UNCHANGED <<busVars, gwVars, loopVars, turnVars, poolVars, deliveries, db>>
    \/ IsImmediate /\ UNCHANGED <<busVars, gwVars, loopVars, turnVars, poolVars, deliveries, db>>

SpecCommands == InitParser /\ [][NextCommands]_vars

=============================================================================
